---- MODULE Spec2Model ----
(***************************************************************************)
(* MLSAG ring signatures and RingCT transactions of blst-ringct            *)
(* (src/src/mlsag.rs, src/src/ringct.rs).                                  *)
(*                                                                         *)
(* The group G1 is a cyclic group of prime order; a point is written as    *)
(* its discrete logarithm to the generator, so that point addition is      *)
(* addition modulo Q and scalar multiplication is multiplication modulo Q. *)
(* The scalar field is the integers modulo the same prime Q.  A G1Affine   *)
(* value that does not satisfy the curve equation is the value OffCurve.   *)
(***************************************************************************)
EXTENDS Integers, Sequences, FiniteSets, TLC

(***************************************************************************)
(* Scalars and points                                                      *)
(***************************************************************************)
\* order of the scalar field and of G1 (a prime)
Q == 7

Scalar == 0 .. (Q - 1)

Point == 0 .. (Q - 1)

\* G1Projective::generator()
G1 == 1

\* the identity of G1 (the point at infinity)
Identity == 0

\* a G1Affine value built by an unchecked decoding, not on the curve
OffCurve == 0 - 1

\* the value generator of PedersenGens (its discrete logarithm to G1)
PedersenH == 3

SAdd(a, b) == (a + b) % Q

SSub(a, b) == ((a - b) + Q) % Q

SMul(a, b) == (a * b) % Q

PAdd(p, q) == (p + q) % Q

PSub(p, q) == ((p - q) + Q) % Q

PMul(p, s) == (p * s) % Q

\* G1Affine::is_on_curve: the curve equation holds, or the point is the
\* point at infinity
is_on_curve(p) == p \in Point

\* crate::hash_to_curve: a point of the prime-order group, never the identity
hash_to_curve(p) == ((p * p) + (3 * p) + 1) % Q

\* RevealedCommitment::commit: blinding * G + value * H
commit(rc) == PAdd(PMul(G1, rc.blinding), PMul(PedersenH, rc.value % Q))

\* RevealedCommitment::to_bytes: value then blinding
RevealedCommitment_to_bytes(rc) == <<rc.value, rc.blinding>>

(***************************************************************************)
(* Hashing: the digest of a byte string, folded byte by byte, and the      *)
(* rejection loop that turns a digest into a scalar                        *)
(***************************************************************************)
\* number of digest values (digests Q .. DigestSize-1 are no scalar)
DigestSize == 11

\* initial state of the sponge
Sha3IV == 5

Absorb(h, x) == ((h * h) + (3 * h) + x + 1) % DigestSize

RECURSIVE Sha3Fold(_, _)
Sha3Fold(h, bytes) ==
    IF bytes = <<>> THEN h ELSE Sha3Fold(Absorb(h, Head(bytes)), Tail(bytes))

RECURSIVE Flatten(_)
Flatten(chunks) ==
    IF chunks = <<>> THEN <<>> ELSE Head(chunks) \o Flatten(Tail(chunks))

Sha3(bytes) == Sha3Fold(Sha3IV, bytes)

RECURSIVE Canonical(_)
Canonical(hash) == IF hash < Q THEN hash ELSE Canonical(Sha3(<<hash>>))

hash_to_scalar(material) == Canonical(Sha3(Flatten(material)))

c_hash(msg, l1, l2, r1) == hash_to_scalar(<<msg, <<l1>>, <<l2>>, <<r1>>>>)

(***************************************************************************)
(* The random number generator handed to sign: a stream of draws           *)
(***************************************************************************)
RngMod == 17

RngStep(s) == ((5 * s) + 2) % RngMod

\* the next k draws of the generator in state s
RECURSIVE RngStream(_, _)
RngStream(s, k) ==
    IF k = 0 THEN <<>> ELSE <<RngStep(s)>> \o RngStream(RngStep(s), k - 1)

\* the state of the generator after k draws
RngAfter(s, k) == IF k = 0 THEN s ELSE RngStream(s, k)[k]

\* Scalar::random
ScalarOf(draw) == draw % Q

(***************************************************************************)
(* MlsagMaterial                                                           *)
(***************************************************************************)
TrueInput_public_key(ti) == PMul(G1, ti.secret_key)

\* the key image with the blinding of the commitment mixed into the key
TrueInput_key_image_blinded(ti) ==
    PMul(hash_to_curve(TrueInput_public_key(ti)),
         SAdd(ti.secret_key, ti.revealed_commitment.blinding))

TrueInput_key_image(ti) ==
    PMul(hash_to_curve(TrueInput_public_key(ti)), ti.secret_key)

InsertAt(s, i, x) == SubSeq(s, 1, i) \o <<x>> \o SubSeq(s, i + 1, Len(s))

public_keys(m, p) ==
    InsertAt([i \in 1 .. Len(m.decoy_inputs) |-> m.decoy_inputs[i].public_key],
             p, TrueInput_public_key(m.true_input))

\* commitments with the true commitment pushed at the end instead of
\* inserted at position p
commitments_push(m, p) ==
    Append([i \in 1 .. Len(m.decoy_inputs) |-> m.decoy_inputs[i].commitment],
           commit(m.true_input.revealed_commitment))

commitments(m, p) ==
    InsertAt([i \in 1 .. Len(m.decoy_inputs) |-> m.decoy_inputs[i].commitment],
             p, commit(m.true_input.revealed_commitment))

\* one link of the challenge chain: the challenge that follows member keys
\* answered by response rr under challenge cn
Challenge(m, keys, rr, key_image, cn) ==
    c_hash(m,
           PAdd(PMul(G1, rr[1]), PMul(keys[1], cn)),
           PAdd(PMul(G1, rr[2]), PMul(keys[2], cn)),
           PAdd(PMul(hash_to_curve(keys[1]), rr[1]), PMul(key_image, cn)))

\* the loop "for offset in 1..ring.len()" of sign
RECURSIVE SignChain(_, _, _, _, _, _, _)
SignChain(m, ring, r, key_image, p, c, offset) ==
    IF offset >= Len(ring) THEN c
    ELSE LET n == (p + offset) % Len(ring)
         IN  SignChain(m, ring, r, key_image, p,
                       [c EXCEPT ![(n + 1) % Len(ring)] =
                           Challenge(m, ring[n + 1], r[n + 1], key_image, c[n])],
                       offset + 1)

\* sign with the second secret taken as pseudo blinding - input blinding
MlsagMaterial_sign_swapped_blindings(mat, m, revealed_pseudo_commitment, rng) ==
    LET size == Len(mat.decoy_inputs) + 1
        draws == RngStream(rng, 3 + (2 * size))
        p == draws[1] % size
        pks == public_keys(mat, p)
        cms == commitments(mat, p)
        pseudo_commitment == commit(revealed_pseudo_commitment)
        ring == [i \in 1 .. size |-> <<pks[i], PSub(cms[i], pseudo_commitment)>>]
        key_image == TrueInput_key_image(mat.true_input)
        alpha == <<ScalarOf(draws[2]), ScalarOf(draws[3])>>
        r0 == [i \in 1 .. size |->
                  <<ScalarOf(draws[2 + (2 * i)]), ScalarOf(draws[3 + (2 * i)])>>]
        c0 == [[i \in 0 .. (size - 1) |-> 0] EXCEPT ![(p + 1) % size] =
                  c_hash(m, PMul(G1, alpha[1]), PMul(G1, alpha[2]),
                         PMul(hash_to_curve(ring[p + 1][1]), alpha[1]))]
        c == SignChain(m, ring, r0, key_image, p, c0, 1)
        secret_keys == <<mat.true_input.secret_key,
                         SSub(revealed_pseudo_commitment.blinding,
                              mat.true_input.revealed_commitment.blinding)>>
        r == [r0 EXCEPT ![p + 1] = <<SSub(alpha[1], SMul(c[p], secret_keys[1])),
                                     SSub(alpha[2], SMul(c[p], secret_keys[2]))>>]
    IN  [sig |-> [c0 |-> c[0], r |-> r, key_image |-> key_image, ring |-> ring,
                  pseudo_commitment |-> pseudo_commitment],
         pi |-> p,
         rng |-> RngAfter(rng, 3 + (2 * size))]

\* MlsagMaterial::sign: the signature, the position drawn and the generator
\* after the draws
MlsagMaterial_sign(mat, m, revealed_pseudo_commitment, rng) ==
    LET size == Len(mat.decoy_inputs) + 1
        draws == RngStream(rng, 3 + (2 * size))
        p == draws[1] % size
        pks == public_keys(mat, p)
        cms == commitments(mat, p)
        pseudo_commitment == commit(revealed_pseudo_commitment)
        ring == [i \in 1 .. size |-> <<pks[i], PSub(cms[i], pseudo_commitment)>>]
        key_image == TrueInput_key_image(mat.true_input)
        alpha == <<ScalarOf(draws[2]), ScalarOf(draws[3])>>
        r0 == [i \in 1 .. size |->
                  <<ScalarOf(draws[2 + (2 * i)]), ScalarOf(draws[3 + (2 * i)])>>]
        c0 == [[i \in 0 .. (size - 1) |-> 0] EXCEPT ![(p + 1) % size] =
                  c_hash(m, PMul(G1, alpha[1]), PMul(G1, alpha[2]),
                         PMul(hash_to_curve(ring[p + 1][1]), alpha[1]))]
        c == SignChain(m, ring, r0, key_image, p, c0, 1)
        secret_keys == <<mat.true_input.secret_key,
                         SSub(mat.true_input.revealed_commitment.blinding,
                              revealed_pseudo_commitment.blinding)>>
        r == [r0 EXCEPT ![p + 1] = <<SSub(alpha[1], SMul(c[p], secret_keys[1])),
                                     SSub(alpha[2], SMul(c[p], secret_keys[2]))>>]
    IN  [sig |-> [c0 |-> c[0], r |-> r, key_image |-> key_image, ring |-> ring,
                  pseudo_commitment |-> pseudo_commitment],
         pi |-> p,
         rng |-> RngAfter(rng, 3 + (2 * size))]

(***************************************************************************)
(* MlsagSignature                                                          *)
(***************************************************************************)
MlsagSignature_public_keys(sg) == [i \in 1 .. Len(sg.ring) |-> sg.ring[i][1]]

\* the verification loop stopping one member short of the ring
RECURSIVE VerifyChain_skip_last(_, _, _, _)
VerifyChain_skip_last(sg, m, cprime, n) ==
    IF n >= Len(sg.ring) - 1 THEN cprime
    ELSE VerifyChain_skip_last(sg, m,
                     [cprime EXCEPT ![(n + 1) % Len(sg.ring)] =
                         Challenge(m, sg.ring[n + 1], sg.r[n + 1], sg.key_image,
                                   cprime[n])],
                     n + 1)

\* the verification loop with the hidden commitments left out of the links
RECURSIVE VerifyChain_without_hidden_commitment(_, _, _, _)
VerifyChain_without_hidden_commitment(sg, m, cprime, n) ==
    IF n >= Len(sg.ring) THEN cprime
    ELSE VerifyChain_without_hidden_commitment(sg, m,
                     [cprime EXCEPT ![(n + 1) % Len(sg.ring)] =
                         Challenge(m, <<sg.ring[n + 1][1], Identity>>, sg.r[n + 1],
                                   sg.key_image, cprime[n])],
                     n + 1)

\* the loop "for (n, keys) in self.ring.iter().enumerate()" of verify
RECURSIVE VerifyChain(_, _, _, _)
VerifyChain(sg, m, cprime, n) ==
    IF n >= Len(sg.ring) THEN cprime
    ELSE VerifyChain(sg, m,
                     [cprime EXCEPT ![(n + 1) % Len(sg.ring)] =
                         Challenge(m, sg.ring[n + 1], sg.r[n + 1], sg.key_image,
                                   cprime[n])],
                     n + 1)

\* verify with the key image checked before the hidden commitments
MlsagSignature_verify_curve_first(sg, m, public_commitments) ==
    IF Len(sg.ring) # Len(public_commitments)
    THEN "ExpectedAPublicCommitmentsForEachRingEntry"
    ELSE IF ~ is_on_curve(sg.key_image)
    THEN "KeyImageNotOnCurve"
    ELSE IF \E i \in 1 .. Len(sg.ring) :
                sg.ring[i][2] # PSub(public_commitments[i], sg.pseudo_commitment)
    THEN "InvalidHiddenCommitmentInRing"
    ELSE IF Len(sg.ring) = 0 \/ Len(sg.r) < Len(sg.ring)
    THEN "panic"
    ELSE LET cprime == VerifyChain(sg, m,
                           [[i \in 0 .. (Len(sg.ring) - 1) |-> 0] EXCEPT ![0] = sg.c0],
                           0)
         IN  IF sg.c0 # cprime[0] THEN "InvalidRingSignature" ELSE "Ok"

\* verify with the hidden commitments compared to C + C' instead of C - C'
MlsagSignature_verify_hidden_sum(sg, m, public_commitments) ==
    IF Len(sg.ring) # Len(public_commitments)
    THEN "ExpectedAPublicCommitmentsForEachRingEntry"
    ELSE IF \E i \in 1 .. Len(sg.ring) :
                sg.ring[i][2] # PAdd(public_commitments[i], sg.pseudo_commitment)
    THEN "InvalidHiddenCommitmentInRing"
    ELSE IF ~ is_on_curve(sg.key_image)
    THEN "KeyImageNotOnCurve"
    ELSE IF Len(sg.ring) = 0 \/ Len(sg.r) < Len(sg.ring)
    THEN "panic"
    ELSE LET cprime == VerifyChain(sg, m,
                           [[i \in 0 .. (Len(sg.ring) - 1) |-> 0] EXCEPT ![0] = sg.c0],
                           0)
         IN  IF sg.c0 # cprime[0] THEN "InvalidRingSignature" ELSE "Ok"

\* verify without the check of the key image
MlsagSignature_verify_no_curve_check(sg, m, public_commitments) ==
    IF Len(sg.ring) # Len(public_commitments)
    THEN "ExpectedAPublicCommitmentsForEachRingEntry"
    ELSE IF \E i \in 1 .. Len(sg.ring) :
                sg.ring[i][2] # PSub(public_commitments[i], sg.pseudo_commitment)
    THEN "InvalidHiddenCommitmentInRing"
    ELSE IF Len(sg.ring) = 0 \/ Len(sg.r) < Len(sg.ring)
    THEN "panic"
    ELSE LET cprime == VerifyChain(sg, m,
                           [[i \in 0 .. (Len(sg.ring) - 1) |-> 0] EXCEPT ![0] = sg.c0],
                           0)
         IN  IF sg.c0 # cprime[0] THEN "InvalidRingSignature" ELSE "Ok"

\* MlsagSignature::verify: "Ok", the error returned, or "panic" when an
\* index is out of bounds
MlsagSignature_verify(sg, m, public_commitments) ==
    IF Len(sg.ring) # Len(public_commitments)
    THEN "ExpectedAPublicCommitmentsForEachRingEntry"
    ELSE IF \E i \in 1 .. Len(sg.ring) :
                sg.ring[i][2] # PSub(public_commitments[i], sg.pseudo_commitment)
    THEN "InvalidHiddenCommitmentInRing"
    ELSE IF ~ is_on_curve(sg.key_image)
    THEN "KeyImageNotOnCurve"
    ELSE IF Len(sg.ring) = 0 \/ Len(sg.r) < Len(sg.ring)
    THEN "panic"
    ELSE LET cprime == VerifyChain(sg, m,
                           [[i \in 0 .. (Len(sg.ring) - 1) |-> 0] EXCEPT ![0] = sg.c0],
                           0)
         IN  IF sg.c0 # cprime[0] THEN "InvalidRingSignature" ELSE "Ok"

(***************************************************************************)
(* RingCtMaterial and RingCtTransaction                                    *)
(***************************************************************************)
RECURSIVE SumScalars(_)
SumScalars(s) == IF s = <<>> THEN 0 ELSE SAdd(Head(s), SumScalars(Tail(s)))

RECURSIVE SumPoints(_)
SumPoints(s) == IF s = <<>> THEN Identity ELSE PAdd(Head(s), SumPoints(Tail(s)))

\* RevealedCommitment::from_value: the value under a blinding drawn at random
RevealedCommitment_from_value(value, draw) ==
    [value |-> value, blinding |-> ScalarOf(draw)]

\* "All PseudoCommitments": one opening per input, of the input's value
revealed_pseudo_commitments(mat, rng) ==
    LET draws == RngStream(rng, Len(mat.inputs))
    IN  [i \in 1 .. Len(mat.inputs) |->
            RevealedCommitment_from_value(
                mat.inputs[i].true_input.revealed_commitment.value, draws[i])]

\* the output openings with every output drawn at random and the corrected
\* opening pushed after them
revealed_output_commitments_take_all(mat, pseudo_openings, rng) ==
    LET n == Len(mat.outputs)
        draws == RngStream(rng, n)
        output_commitments ==
            [j \in 1 .. n |-> RevealedCommitment_from_value(mat.outputs[j].amount, draws[j])]
        input_sum ==
            SumScalars([i \in 1 .. Len(pseudo_openings) |-> pseudo_openings[i].blinding])
        output_sum ==
            SumScalars([j \in 1 .. n |-> output_commitments[j].blinding])
    IN  Append(output_commitments,
               [value |-> mat.outputs[n].amount,
                blinding |-> SSub(input_sum, output_sum)])

\* the output openings with the correction added instead of subtracted
revealed_output_commitments_sum(mat, pseudo_openings, rng) ==
    LET n == Len(mat.outputs)
        draws == RngStream(rng, n - 1)
        output_commitments ==
            [j \in 1 .. (n - 1) |->
                RevealedCommitment_from_value(mat.outputs[j].amount, draws[j])]
        input_sum ==
            SumScalars([i \in 1 .. Len(pseudo_openings) |-> pseudo_openings[i].blinding])
        output_sum ==
            SumScalars([j \in 1 .. (n - 1) |-> output_commitments[j].blinding])
    IN  Append(output_commitments,
               [value |-> mat.outputs[n].amount,
                blinding |-> SAdd(input_sum, output_sum)])

\* "All output commitments" (outputs not empty): all outputs but the last
\* drawn at random, the last with the blinding that makes the sums agree
revealed_output_commitments(mat, pseudo_openings, rng) ==
    LET n == Len(mat.outputs)
        draws == RngStream(rng, n - 1)
        output_commitments ==
            [j \in 1 .. (n - 1) |->
                RevealedCommitment_from_value(mat.outputs[j].amount, draws[j])]
        input_sum ==
            SumScalars([i \in 1 .. Len(pseudo_openings) |-> pseudo_openings[i].blinding])
        output_sum ==
            SumScalars([j \in 1 .. (n - 1) |-> output_commitments[j].blinding])
        output_blinding_correction == SSub(input_sum, output_sum)
    IN  Append(output_commitments,
               [value |-> mat.outputs[n].amount,
                blinding |-> output_blinding_correction])

\* RangeProof::prove_single on the transcript after position - 1 proofs
prove_single(position, opening) ==
    [range_proof |-> [commitment |-> commit(opening), position |-> position],
     commitment |-> commit(opening)]

\* RangeProof::verify_single on the transcript after position - 1 proofs
verify_single(position, range_proof, commitment) ==
    range_proof.commitment = commitment /\ range_proof.position = position

OutputProof_to_bytes(o) ==
    <<o.range_proof.commitment, o.range_proof.position>> \o <<o.commitment>>

\* the byte strings of a sequence, one after the other
Bytes(s) == Flatten(s)

\* "We create a ring signature for each input": the rings from the k-th on,
\* each signed with the generator the one before left
RECURSIVE SignRings(_, _, _, _, _)
SignRings(inputs, pseudo_openings, m, rng, k) ==
    IF k > Len(inputs) THEN <<>>
    ELSE LET out == MlsagMaterial_sign(inputs[k], m, pseudo_openings[k], rng)
         IN  <<out>> \o SignRings(inputs, pseudo_openings, m, out.rng, k + 1)

NoTransaction == [mlsags |-> <<>>, outputs |-> <<>>]

\* "Generate message to sign"
SignedMessage(mat, pseudo_openings, output_openings, outputs) ==
    [i \in 1 .. Len(mat.inputs) |-> TrueInput_public_key(mat.inputs[i].true_input)]
    \o Bytes([i \in 1 .. Len(mat.inputs) |->
                 [k \in 1 .. Len(mat.inputs[i].decoy_inputs) |->
                     mat.inputs[i].decoy_inputs[k].public_key]])
    \o [i \in 1 .. Len(mat.inputs) |-> TrueInput_key_image(mat.inputs[i].true_input)]
    \o Bytes([i \in 1 .. Len(pseudo_openings) |->
                 RevealedCommitment_to_bytes(pseudo_openings[i])])
    \o Bytes([j \in 1 .. Len(output_openings) |->
                 RevealedCommitment_to_bytes(output_openings[j])])
    \o Bytes([j \in 1 .. Len(outputs) |-> OutputProof_to_bytes(outputs[j])])

\* RingCtMaterial::sign: status "Ok" with the message, the transaction and
\* the output openings, or "panic", or "RangeProofError" when the range
\* proof library refuses to prove
RingCtMaterial_sign(mat, rng, proving_fails) ==
    IF Len(mat.outputs) = 0
    THEN [status |-> "panic", msg |-> <<>>, tx |-> NoTransaction,
          openings |-> <<>>, positions |-> <<>>]
    ELSE IF proving_fails
    THEN [status |-> "RangeProofError", msg |-> <<>>, tx |-> NoTransaction,
          openings |-> <<>>, positions |-> <<>>]
    ELSE LET pseudo_openings == revealed_pseudo_commitments(mat, rng)
             rng1 == RngAfter(rng, Len(mat.inputs))
             output_openings == revealed_output_commitments(mat, pseudo_openings, rng1)
             rng2 == RngAfter(rng1, Len(mat.outputs) - 1)
             outputs == [j \in 1 .. Len(output_openings) |->
                            prove_single(j, output_openings[j])]
             m == SignedMessage(mat, pseudo_openings, output_openings, outputs)
             signed == SignRings(mat.inputs, pseudo_openings, m, rng2, 1)
         IN  [status |-> "Ok",
              msg |-> m,
              tx |-> [mlsags |-> [i \in 1 .. Len(signed) |-> signed[i].sig],
                      outputs |-> outputs],
              openings |-> output_openings,
              positions |-> [i \in 1 .. Len(signed) |-> signed[i].pi]]

\* the loop over self.mlsags.iter().zip(public_commitments_per_ring): the
\* first result that is not "Ok"
RECURSIVE VerifyRings(_, _, _, _)
VerifyRings(t, m, public_commitments_per_ring, i) ==
    IF i > Len(t.mlsags) \/ i > Len(public_commitments_per_ring) THEN "Ok"
    ELSE LET res == MlsagSignature_verify(t.mlsags[i], m, public_commitments_per_ring[i])
         IN  IF res # "Ok" THEN res
             ELSE VerifyRings(t, m, public_commitments_per_ring, i + 1)

\* RingCtTransaction::verify
RingCtTransaction_verify(t, m, public_commitments_per_ring) ==
    LET rings == VerifyRings(t, m, public_commitments_per_ring, 1)
        input_sum ==
            SumPoints([i \in 1 .. Len(t.mlsags) |-> t.mlsags[i].pseudo_commitment])
        output_sum ==
            SumPoints([j \in 1 .. Len(t.outputs) |-> t.outputs[j].commitment])
    IN  IF rings # "Ok" THEN rings
        ELSE IF \E j \in 1 .. Len(t.outputs) :
                    ~ verify_single(j, t.outputs[j].range_proof, t.outputs[j].commitment)
        THEN "RangeProofError"
        ELSE IF input_sum # output_sum
        THEN "InputPseudoCommitmentsDoNotSumToOutputCommitments"
        ELSE "Ok"

(***************************************************************************)
(* Inputs of the model                                                     *)
(***************************************************************************)
MaxSecretKey == 2

MaxValue == 1

MaxBlinding == 1

MaxDecoys == 2

MaxMsgByte == 1

MaxSeed == 2

\* the k-th output of the ledger a ring may name as decoy
LedgerEntry(k) == [public_key |-> (4 * k) % Q, commitment |-> ((2 * k) + 3) % Q]

\* fetch_decoys(n, ..): the first n outputs of the ledger
fetch_decoys(n) == [k \in 1 .. n |-> LedgerEntry(k)]

DecoyLists == {fetch_decoys(n) : n \in 0 .. MaxDecoys}

RevealedCommitment == [value : 0 .. MaxValue, blinding : 0 .. MaxBlinding]

TrueInput == [secret_key : 0 .. MaxSecretKey, revealed_commitment : RevealedCommitment]

MlsagMaterial == [true_input : TrueInput, decoy_inputs : DecoyLists]

Messages == {<<b>> : b \in 0 .. MaxMsgByte}

Seeds == 0 .. MaxSeed

MaxInputs == 2

MaxOutputs == 2

\* the blinding of the true inputs' commitments on the ledger
LedgerBlinding == 5

\* the k-th input of a transaction: key k, value v, the first d outputs of
\* the ledger as decoys
RingCtInput(k, v, d) ==
    [true_input |-> [secret_key |-> k % Q,
                     revealed_commitment |-> [value |-> v, blinding |-> LedgerBlinding]],
     decoy_inputs |-> fetch_decoys(d)]

Output == [public_key : {LedgerEntry(1).public_key}, amount : 0 .. MaxValue]

OutputLists == UNION {[1 .. n -> Output] : n \in 0 .. MaxOutputs}

RingCtMaterial ==
    UNION {{[inputs |-> [k \in 1 .. n |-> RingCtInput(k, vs[k], d)], outputs |-> outs] :
               vs \in [1 .. n -> 0 .. MaxValue], d \in 0 .. MaxDecoys, outs \in OutputLists} :
           n \in 0 .. MaxInputs}

NoMaterial ==
    [true_input |-> [secret_key |-> 0,
                     revealed_commitment |-> [value |-> 0, blinding |-> 0]],
     decoy_inputs |-> <<>>]

NoSignature ==
    [c0 |-> 0, r |-> <<>>, key_image |-> 0, ring |-> <<>>, pseudo_commitment |-> 0]

(***************************************************************************)
(* State.  Ring level: one call of MlsagMaterial::sign (material, pseudo,  *)
(* msg, rng give sig and pi), then one call of MlsagSignature::verify on   *)
(* the signature, message and commitments that reach the verifier (vsig,   *)
(* vmsg, vcommitments give result).  Transaction level: one call of        *)
(* RingCtMaterial::sign (rct, rng, proving give status, msg, tx, openings, *)
(* positions), then one call of RingCtTransaction::verify (vtx, vmsg,      *)
(* vrings give result).  issued is the log of the key images signed.       *)
(***************************************************************************)
VARIABLES pc, msg, rng, vmsg, tamper, result,
          material, pseudo, pi, sig, vsig, vcommitments,
          rct, proving, status, tx, openings, positions, vtx, vrings,
          issued

ringvars == <<material, pseudo, pi, sig, vsig, vcommitments>>

txvars == <<rct, proving, status, tx, openings, positions, vtx, vrings>>

vars == <<pc, msg, rng, vmsg, tamper, result, ringvars, txvars, issued>>

Init ==
    /\ pc = "start"
    /\ material = NoMaterial
    /\ pseudo = [value |-> 0, blinding |-> 0]
    /\ msg = <<>>
    /\ rng = 0
    /\ pi = 0
    /\ sig = NoSignature
    /\ vsig = NoSignature
    /\ vmsg = <<>>
    /\ vcommitments = <<>>
    /\ tamper = "none"
    /\ result = "none"
    /\ rct = [inputs |-> <<>>, outputs |-> <<>>]
    /\ proving = FALSE
    /\ status = "none"
    /\ tx = NoTransaction
    /\ openings = <<>>
    /\ positions = <<>>
    /\ vtx = NoTransaction
    /\ vrings = <<>>
    /\ issued = <<>>

\* the ledger's commitments of the ring members, in ring order
LedgerCommitments == commitments(material, pi)

\* sign is called on material mat, message m and pseudo opening rpc, with
\* the generator in state seed
SignWith(mat, m, rpc, seed) ==
    LET out == MlsagMaterial_sign(mat, m, rpc, seed)
    IN  /\ material' = mat
        /\ msg' = m
        /\ pseudo' = rpc
        /\ sig' = out.sig
        /\ pi' = out.pi
        /\ rng' = out.rng

Sign ==
    /\ pc = "start"
    /\ \E mat \in MlsagMaterial, m \in Messages, rpc \in RevealedCommitment,
          seed \in Seeds : SignWith(mat, m, rpc, seed)
    /\ pc' = "signed"
    /\ UNCHANGED <<vsig, vmsg, vcommitments, tamper, result, txvars, issued>>

\* verify is called on signature sg, message m and commitments pcs
Present(sg, m, pcs, kind) ==
    /\ pc = "signed"
    /\ vsig' = sg
    /\ vmsg' = m
    /\ vcommitments' = pcs
    /\ tamper' = kind
    /\ result' = MlsagSignature_verify(sg, m, pcs)
    /\ pc' = "verified"
    /\ UNCHANGED <<material, pseudo, msg, rng, pi, sig, txvars, issued>>

Verify == Present(sig, msg, LedgerCommitments, "none")

VerifyTamperedMsg ==
    \E m \in Messages \ {msg} : Present(sig, m, LedgerCommitments, "msg")

VerifyTamperedR ==
    \E i \in 1 .. Len(sig.r), j \in 1 .. 2 : \E v \in Scalar \ {sig.r[i][j]} :
        Present([sig EXCEPT !.r[i][j] = v], msg, LedgerCommitments, "r")

VerifyTamperedC0 ==
    \E v \in Scalar \ {sig.c0} :
        Present([sig EXCEPT !.c0 = v], msg, LedgerCommitments, "c0")

VerifyTamperedKeyImage ==
    \E p \in (Point \cup {OffCurve}) \ {sig.key_image} :
        Present([sig EXCEPT !.key_image = p], msg, LedgerCommitments, "key_image")

VerifyTamperedRingKey ==
    \E i \in 1 .. Len(sig.ring) : \E p \in Point \ {sig.ring[i][1]} :
        Present([sig EXCEPT !.ring[i][1] = p], msg, LedgerCommitments, "ring_key")

VerifyTamperedRingCommitment ==
    \E i \in 1 .. Len(sig.ring) : \E p \in Point \ {sig.ring[i][2]} :
        Present([sig EXCEPT !.ring[i][2] = p], msg, LedgerCommitments,
                "ring_commitment")

VerifyTamperedPseudoCommitment ==
    \E p \in Point \ {sig.pseudo_commitment} :
        Present([sig EXCEPT !.pseudo_commitment = p], msg, LedgerCommitments,
                "pseudo_commitment")

\* several fields changed at once, with or without the last public
\* commitment dropped
VerifyMangled ==
    \E short \in BOOLEAN, dp \in {0, 1}, dc \in {0, 1},
       ki \in {sig.key_image, Identity, OffCurve} :
        Present([sig EXCEPT !.pseudo_commitment = PAdd(@, dp),
                            !.c0 = SAdd(@, dc),
                            !.key_image = ki],
                msg,
                IF short THEN SubSeq(LedgerCommitments, 1, Len(sig.ring) - 1)
                         ELSE LedgerCommitments,
                "mangled")

\* a signature whose r is one entry short, or whose ring is empty
VerifyMalformed ==
    \/ Present([sig EXCEPT !.r = SubSeq(@, 1, Len(@) - 1)], msg,
               LedgerCommitments, "short_r")
    \/ Present([sig EXCEPT !.ring = <<>>], msg, <<>>, "empty_ring")

Next ==
    \/ Sign
    \/ Verify
    \/ VerifyTamperedMsg
    \/ VerifyTamperedR
    \/ VerifyTamperedC0
    \/ VerifyTamperedKeyImage
    \/ VerifyTamperedRingKey
    \/ VerifyTamperedRingCommitment
    \/ VerifyTamperedPseudoCommitment
    \/ VerifyMangled
    \/ VerifyMalformed

Spec == Init /\ [][Next]_vars

(***************************************************************************)
(* Transaction level                                                       *)
(***************************************************************************)
\* the ledger's commitments of the members of every ring, in ring order
LedgerRings ==
    [i \in 1 .. Len(rct.inputs) |-> commitments(rct.inputs[i], positions[i])]

TxSign ==
    /\ pc = "start"
    /\ \E mat \in RingCtMaterial, seed \in Seeds, fails \in BOOLEAN :
          LET out == RingCtMaterial_sign(mat, seed, fails)
          IN  /\ rct' = mat
              /\ rng' = seed
              /\ proving' = fails
              /\ status' = out.status
              /\ msg' = out.msg
              /\ tx' = out.tx
              /\ openings' = out.openings
              /\ positions' = out.positions
    /\ pc' = "tx_signed"
    /\ UNCHANGED <<vmsg, tamper, result, ringvars, vtx, vrings, issued>>

\* verify is called on transaction t, message m and commitments pcr
TxPresent(t, m, pcr, kind) ==
    /\ pc = "tx_signed"
    /\ status = "Ok"
    /\ vtx' = t
    /\ vmsg' = m
    /\ vrings' = pcr
    /\ tamper' = kind
    /\ result' = RingCtTransaction_verify(t, m, pcr)
    /\ pc' = "tx_verified"
    /\ UNCHANGED <<msg, rng, ringvars, rct, proving, status, tx, openings,
                   positions, issued>>

TxVerify == TxPresent(tx, msg, LedgerRings, "none")

\* fewer lists of public commitments than the transaction has rings
TxVerifyFewerRings ==
    \E k \in 0 .. (Len(tx.mlsags) - 1) :
        TxPresent(tx, msg, SubSeq(LedgerRings, 1, k), "fewer_rings")

\* the response r[0].0 of the last ring changed, with the commitments of
\* every ring or without those of the last ring
TxVerifyForged ==
    /\ Len(tx.mlsags) >= 1
    /\ \E short \in BOOLEAN :
          TxPresent([tx EXCEPT !.mlsags[Len(tx.mlsags)].r[1][1] = SAdd(@, 1)],
                    msg,
                    IF short THEN SubSeq(LedgerRings, 1, Len(tx.mlsags) - 1)
                             ELSE LedgerRings,
                    "forged")

TxVerifyTamperedMsg ==
    TxPresent(tx, [msg EXCEPT ![Len(msg)] = @ + 1], LedgerRings, "msg")

\* the commitment of the last output moved by one generator
TxVerifyTamperedOutput ==
    TxPresent([tx EXCEPT !.outputs[Len(tx.outputs)].commitment = PAdd(@, G1)],
              msg, LedgerRings, "output")

NextRingCt ==
    \/ TxSign
    \/ TxVerify
    \/ TxVerifyFewerRings
    \/ TxVerifyForged
    \/ TxVerifyTamperedMsg
    \/ TxVerifyTamperedOutput

SpecRingCt == Init /\ [][NextRingCt]_vars

(***************************************************************************)
(* Properties of MlsagMaterial::sign and MlsagSignature::verify            *)
(***************************************************************************)
\* the signature as signed verifies against the ledger's commitments
SignedValid == MlsagSignature_verify(sig, msg, LedgerCommitments) = "Ok"

LengthsMatch == Len(vsig.ring) = Len(vcommitments)

\* every hidden commitment presented is public commitment - pseudo commitment
Coherent ==
    /\ LengthsMatch
    /\ \A i \in 1 .. Len(vsig.ring) :
          vsig.ring[i][2] = PSub(vcommitments[i], vsig.pseudo_commitment)

\* C3: verify runs its checks in the order lengths, hidden commitments, key
\* image on curve, challenge chain, and returns the error of the first check
\* that fails: a length mismatch gives
\* ExpectedAPublicCommitmentsForEachRingEntry whatever the other fields are,
\* and InvalidRingSignature is returned only when the first three checks pass.
VerifyReturnsFirstFailedCheck ==
    pc = "verified" =>
        /\ (~ LengthsMatch) => result = "ExpectedAPublicCommitmentsForEachRingEntry"
        /\ (LengthsMatch /\ ~ Coherent) => result = "InvalidHiddenCommitmentInRing"
        /\ (Coherent /\ vsig.key_image = OffCurve) => result = "KeyImageNotOnCurve"
        /\ result = "InvalidRingSignature" => (Coherent /\ vsig.key_image # OffCurve)
        /\ result = "KeyImageNotOnCurve" => Coherent
        /\ result = "InvalidHiddenCommitmentInRing" => LengthsMatch

\* C3 witness: a commitment is missing, the pseudo commitment and the key
\* image are wrong as well, and the length error is the one returned.
FirstFailedCheckWitness ==
    /\ pc = "verified"
    /\ Len(vcommitments) = Len(vsig.ring) - 1
    /\ vsig.pseudo_commitment # sig.pseudo_commitment
    /\ vsig.key_image = OffCurve
    /\ vsig.c0 # sig.c0
    /\ result = "ExpectedAPublicCommitmentsForEachRingEntry"

\* C5: verify accepts only if every ring[i].1 is public_commitments[i] -
\* pseudo_commitment, and a signature whose pseudo commitment alone was
\* replaced by a different point (ring and commitments as signed) gets
\* InvalidHiddenCommitmentInRing, whatever its key image and its c0 are.
PseudoCommitmentIsBound ==
    pc = "verified" =>
        /\ result = "Ok" => Coherent
        /\ ( /\ vsig.pseudo_commitment # sig.pseudo_commitment
             /\ vsig.ring = sig.ring
             /\ vcommitments = LedgerCommitments )
           => result = "InvalidHiddenCommitmentInRing"

\* C5 witness: a valid signature, its pseudo commitment replaced, the key
\* image off the curve and c0 changed too: the hidden commitment error is
\* returned.
PseudoCommitmentWitness ==
    /\ pc = "verified"
    /\ SignedValid
    /\ vsig.pseudo_commitment # sig.pseudo_commitment
    /\ vsig.key_image = OffCurve
    /\ vsig.c0 # sig.c0
    /\ LengthsMatch
    /\ result = "InvalidHiddenCommitmentInRing"

\* the key image alone was replaced in a signature that verified
KeyImageReplaced(p) ==
    /\ pc = "verified"
    /\ sig.key_image # p
    /\ vsig = [sig EXCEPT !.key_image = p]
    /\ vmsg = msg
    /\ vcommitments = LedgerCommitments
    /\ SignedValid

\* C6 as stated: a key image replaced by the identity or by a point off the
\* curve makes verify return KeyImageNotOnCurve (stated for the signatures
\* whose challenge c0 is not zero, where the key image enters the chain).
IdentityKeyImageIsRejected ==
    (sig.c0 # 0 /\ (KeyImageReplaced(Identity) \/ KeyImageReplaced(OffCurve)))
        => result = "KeyImageNotOnCurve"

\* C6 amended: a key image replaced by a point off the curve makes verify
\* return KeyImageNotOnCurve; the identity passes the curve check, and
\* verify goes on to the challenge chain, which alone decides between
\* InvalidRingSignature and success.
OffCurveKeyImageIsRejected ==
    /\ KeyImageReplaced(OffCurve) => result = "KeyImageNotOnCurve"
    /\ KeyImageReplaced(Identity) => result \in {"InvalidRingSignature", "Ok"}

\* C6 witness: both replacements are seen, each with its result.
OffCurveKeyImageWitness ==
    \/ KeyImageReplaced(OffCurve) /\ result = "KeyImageNotOnCurve" /\ Len(sig.ring) = 3
    \/ KeyImageReplaced(Identity) /\ result = "InvalidRingSignature" /\ Len(sig.ring) = 3

\* the i-th member of the ring built around position pi: the true input
\* at pi, the decoys in their order around it
MemberKey(i) ==
    IF i = pi + 1 THEN PMul(G1, material.true_input.secret_key)
    ELSE material.decoy_inputs[IF i <= pi THEN i ELSE i - 1].public_key

MemberCommitment(i) ==
    IF i = pi + 1 THEN commit(material.true_input.revealed_commitment)
    ELSE material.decoy_inputs[IF i <= pi THEN i ELSE i - 1].commitment

\* C10: in every signature returned by sign, for every position pi drawn,
\* the ring is the decoy list in its order with the true input inserted at
\* pi, and every ring[i].1 is the member's commitment - pseudo_commitment,
\* the pseudo commitment being the commitment of the pseudo opening.
RingIsCoherentAtSigning ==
    pc # "start" =>
        /\ pi \in 0 .. Len(material.decoy_inputs)
        /\ Len(sig.ring) = Len(material.decoy_inputs) + 1
        /\ sig.pseudo_commitment = commit(pseudo)
        /\ \A i \in 1 .. Len(sig.ring) :
              sig.ring[i] = <<MemberKey(i),
                              PSub(MemberCommitment(i), sig.pseudo_commitment)>>

\* C10 witness: a ring of three with the true input in the middle.
RingIsCoherentWitness ==
    /\ pc = "signed"
    /\ Len(material.decoy_inputs) = 2
    /\ pi = 1
    /\ sig.ring[2][1] = PMul(G1, material.true_input.secret_key)
    /\ sig.ring[1][1] = material.decoy_inputs[1].public_key
    /\ sig.ring[3][1] = material.decoy_inputs[2].public_key

(***************************************************************************)
(* The challenge chain as a sequence of hash queries                       *)
(***************************************************************************)
\* the input of c_hash for member keys, response rr and challenge cn
Query(m, keys, rr, key_image, cn) ==
    <<m,
      PAdd(PMul(G1, rr[1]), PMul(keys[1], cn)),
      PAdd(PMul(G1, rr[2]), PMul(keys[2], cn)),
      PAdd(PMul(hash_to_curve(keys[1]), rr[1]), PMul(key_image, cn))>>

QueryHash(q) == c_hash(q[1], q[2], q[3], q[4])

\* the queries verify makes for signature sg from member n + 1 on, the
\* challenge of that member being cn
RECURSIVE Queries(_, _, _, _)
Queries(sg, m, cn, n) ==
    IF n >= Len(sg.ring) THEN <<>>
    ELSE LET q == Query(m, sg.ring[n + 1], sg.r[n + 1], sg.key_image, cn)
         IN  <<q>> \o Queries(sg, m, QueryHash(q), n + 1)

Range(s) == {s[i] : i \in 1 .. Len(s)}

SignedQueries == Queries(sig, msg, sig.c0, 0)

PresentedQueries == Queries(vsig, vmsg, vsig.c0, 0)

\* the challenge hash has no collision among the queries of the two chains
CollisionFree ==
    LET hashed == {<<q, QueryHash(q)>> :
                      q \in Range(SignedQueries) \cup Range(PresentedQueries)}
    IN  \A a, b \in hashed : a[1] # b[1] => a[2] # b[2]

\* no challenge of the signed chain is zero
NoZeroChallenge ==
    /\ sig.c0 # 0
    /\ \A i \in 1 .. Len(SignedQueries) : QueryHash(SignedQueries[i]) # 0

\* the signature is none of the degenerate ones: no challenge of its chain
\* is zero, and neither its key image nor a public key of its ring is the
\* identity
NonDegenerate ==
    /\ NoZeroChallenge
    /\ sig.key_image # Identity
    /\ \A i \in 1 .. Len(sig.ring) : sig.ring[i][1] # Identity

Tampered(kind) == pc = "verified" /\ tamper = kind /\ SignedValid

LinkSign ==
    /\ pc = "start"
    /\ \E sk \in 0 .. MaxSecretKey, seed \in Seeds :
          LET mat == [true_input |-> [secret_key |-> sk,
                                      revealed_commitment |-> [value |-> 0, blinding |-> 0]],
                      decoy_inputs |-> fetch_decoys(MaxDecoys)]
          IN  /\ SignWith(mat, <<0>>, [value |-> 0, blinding |-> 0], seed)
              /\ issued' = <<[secret_key |-> sk,
                              key_image |-> sig'.key_image,
                              fresh |-> TRUE]>>
    /\ pc' = "signed"
    /\ UNCHANGED <<vsig, vmsg, vcommitments, tamper, result, txvars>>

\* the second call: any material, message, opening and generator state;
\* fresh: it differs from the first in its message, decoys, openings,
\* position and generator
LinkSignAgain ==
    /\ pc = "signed"
    /\ \E mat \in MlsagMaterial, m \in Messages, rpc \in RevealedCommitment,
          seed \in Seeds :
          /\ SignWith(mat, m, rpc, seed)
          /\ issued' = Append(issued,
                 [secret_key |-> mat.true_input.secret_key,
                  key_image |-> sig'.key_image,
                  fresh |-> /\ m # msg
                            /\ mat.decoy_inputs # material.decoy_inputs
                            /\ rpc # pseudo
                            /\ mat.true_input.revealed_commitment
                                   # material.true_input.revealed_commitment
                            /\ pi' # pi
                            /\ rng' # rng])
    /\ pc' = "signed_again"
    /\ UNCHANGED <<vsig, vmsg, vcommitments, tamper, result, txvars>>

NextLink == LinkSign \/ LinkSignAgain

SpecLink == Init /\ [][NextLink]_vars

\* C8: the key image of a signature is secret_key * H_p(secret_key * G), and
\* two calls of sign with the same secret key give the same key image,
\* whatever the message, decoys, openings, position and draws of each.
KeyImageDependsOnlyOnSecretKey ==
    /\ \A a, b \in 1 .. Len(issued) :
          issued[a].secret_key = issued[b].secret_key
              => issued[a].key_image = issued[b].key_image
    /\ pc \in {"signed", "signed_again"} =>
          sig.key_image =
              PMul(hash_to_curve(PMul(G1, material.true_input.secret_key)),
                   material.true_input.secret_key)

\* C8 witness: a second signature under the same key and with everything
\* else different carries the key image of the first.
KeyImageWitness ==
    /\ pc = "signed_again"
    /\ issued[2].fresh
    /\ issued[1].secret_key = issued[2].secret_key
    /\ issued[1].secret_key # 0
    /\ issued[1].key_image = issued[2].key_image
    /\ sig.key_image = issued[1].key_image

(***************************************************************************)
(* Properties of RingCtMaterial::sign and RingCtTransaction::verify        *)
(***************************************************************************)
RECURSIVE SumAmounts(_)
SumAmounts(s) == IF s = <<>> THEN 0 ELSE Head(s) + SumAmounts(Tail(s))

\* conservation: the input amounts sum to the output amounts
Conserved ==
    SumAmounts([i \in 1 .. Len(rct.inputs) |->
                   rct.inputs[i].true_input.revealed_commitment.value])
        = SumAmounts([j \in 1 .. Len(rct.outputs) |-> rct.outputs[j].amount])

PseudoSum ==
    SumPoints([i \in 1 .. Len(tx.mlsags) |-> tx.mlsags[i].pseudo_commitment])

OutputSum == SumPoints([j \in 1 .. Len(tx.outputs) |-> tx.outputs[j].commitment])

\* C1: for every material with at least one output whose input amounts sum
\* to the output amounts, for any ring sizes and any draws, verify called
\* with the message sign returned and the ledger's commitments of the ring
\* members in ring order returns success.
Completeness ==
    (pc = "tx_verified" /\ tamper = "none" /\ Conserved) => result = "Ok"

\* C1 witness: two inputs in rings of three at different positions, two
\* outputs, amounts conserved and not zero, and verify succeeds.
CompletenessWitness ==
    /\ pc = "tx_verified"
    /\ tamper = "none"
    /\ Conserved
    /\ Len(rct.inputs) = 2
    /\ Len(rct.outputs) = 2
    /\ Len(tx.mlsags[1].ring) = 3
    /\ positions[1] # positions[2]
    /\ rct.outputs[1].amount = 1
    /\ rct.outputs[2].amount = 1
    /\ result = "Ok"

\* C2 as stated: in every transaction returned by sign the pseudo
\* commitments sum to the output commitments.
EverySignedTransactionBalances ==
    (pc = "tx_signed" /\ status = "Ok") => PseudoSum = OutputSum

\* C2 amended: in every transaction returned by sign for a material whose
\* input amounts sum to its output amounts, the pseudo commitments sum to
\* the output commitments.
ConservingTransactionBalances ==
    (pc = "tx_signed" /\ status = "Ok" /\ Conserved) => PseudoSum = OutputSum

\* C2 witness: two inputs and two outputs with conserved amounts, and the
\* sums agree on a point that is not the identity.
BalanceWitness ==
    /\ pc = "tx_signed"
    /\ status = "Ok"
    /\ Conserved
    /\ Len(tx.mlsags) = 2
    /\ Len(tx.outputs) = 2
    /\ rct.outputs[1].amount = 1
    /\ PseudoSum = OutputSum
    /\ PseudoSum # Identity

\* C7: verify returns success only if every MLSAG of the transaction
\* verifies against the ledger's commitments of its ring, whatever list of
\* commitments it was called with: no MLSAG is left unchecked.
EveryRingIsVerified ==
    (pc = "tx_verified" /\ result = "Ok") =>
        \A i \in 1 .. Len(vtx.mlsags) :
            MlsagSignature_verify(vtx.mlsags[i], vmsg, LedgerRings[i]) = "Ok"

\* C9: sign fails when outputs is empty; with at least one output it fails
\* only when the range proof library fails to prove, and otherwise returns
\* the message and a transaction with one MLSAG per input, one OutputProof
\* per output and one opening per output.
SignFailsOnlyWithoutOutputsOrProof ==
    pc \in {"tx_signed", "tx_verified"} =>
        /\ Len(rct.outputs) = 0 => (status = "panic" /\ tx = NoTransaction)
        /\ Len(rct.outputs) >= 1 =>
              /\ status \in {"Ok", "RangeProofError"}
              /\ status = "RangeProofError" <=> proving
              /\ status = "RangeProofError" => tx = NoTransaction
              /\ status = "Ok" =>
                    /\ Len(tx.mlsags) = Len(rct.inputs)
                    /\ Len(tx.outputs) = Len(rct.outputs)
                    /\ Len(openings) = Len(rct.outputs)
                    /\ \A j \in 1 .. Len(rct.outputs) :
                          /\ openings[j].value = rct.outputs[j].amount
                          /\ tx.outputs[j].commitment = commit(openings[j])

\* C9 witness: both failures and a success with two inputs and two outputs.
SignOutcomeWitness ==
    /\ pc = "tx_signed"
    /\ status = "Ok"
    /\ Len(tx.mlsags) = 2
    /\ Len(tx.outputs) = 2
    /\ Len(openings) = 2

\* C9: the other outcomes of sign are seen too.
SignFailureSeen ==
    \/ pc = "tx_signed" /\ status = "panic" /\ Len(rct.inputs) = 2
    \/ pc = "tx_signed" /\ status = "RangeProofError" /\ Len(rct.outputs) = 2

(***************************************************************************)
(* A pseudo opening of another value than the input's                      *)
(***************************************************************************)
\* the challenges verify computes for the signature as signed
SignedChallenges ==
    VerifyChain(sig, msg,
                [[i \in 0 .. (Len(sig.ring) - 1) |-> 0] EXCEPT ![0] = sig.c0], 0)

\* the challenge the signer answered at the position of the true input
ChallengeAtPi == IF pi = 0 THEN sig.c0 ELSE SignedChallenges[pi]

\* the secrets sign answers with
SecretKeys ==
    <<material.true_input.secret_key,
      SSub(material.true_input.revealed_commitment.blinding, pseudo.blinding)>>

\* the query sign makes with alpha, alpha being r[pi] + c[pi] * secret_keys
AlphaQuery ==
    LET alpha == <<SAdd(sig.r[pi + 1][1], SMul(ChallengeAtPi, SecretKeys[1])),
                   SAdd(sig.r[pi + 1][2], SMul(ChallengeAtPi, SecretKeys[2]))>>
    IN  <<msg, PMul(G1, alpha[1]), PMul(G1, alpha[2]),
          PMul(hash_to_curve(sig.ring[pi + 1][1]), alpha[1])>>

\* the challenges sign computed, from the one after the true input around
SignerChallenges ==
    SignChain(msg, sig.ring, sig.r, sig.key_image, pi,
              [[i \in 0 .. (Len(sig.ring) - 1) |-> 0]
                   EXCEPT ![(pi + 1) % Len(sig.ring)] = QueryHash(AlphaQuery)],
              1)

\* the queries sign made
SignerQueries ==
    {AlphaQuery} \cup
    {Query(msg, sig.ring[n + 1], sig.r[n + 1], sig.key_image, SignerChallenges[n]) :
         n \in (0 .. (Len(sig.ring) - 1)) \ {pi}}

\* the challenge hash has no collision among the queries of sign and the
\* queries of verify on the signature as signed
SigningCollisionFree ==
    LET hashed == {<<q, QueryHash(q)>> : q \in SignerQueries \cup Range(SignedQueries)}
    IN  \A a, b \in hashed : a[1] # b[1] => a[2] # b[2]

\* sign was given a pseudo opening of another value than the input's, and
\* its signature is verified as signed against the ledger's commitments
WrongValueVerified ==
    /\ pc = "verified"
    /\ tamper = "none"
    /\ pseudo.value # material.true_input.revealed_commitment.value

\* sign returns a signature whatever the pseudo opening is
SignatureReturned ==
    pc # "start" =>
        /\ Len(sig.ring) = Len(material.decoy_inputs) + 1
        /\ Len(sig.r) = Len(sig.ring)
        /\ sig.pseudo_commitment = commit(pseudo)
        /\ is_on_curve(sig.key_image)

VerifyNeverAborts ==
    pc = "verified" =>
        result \in {"Ok",
                    "ExpectedAPublicCommitmentsForEachRingEntry",
                    "InvalidHiddenCommitmentInRing",
                    "KeyImageNotOnCurve",
                    "InvalidRingSignature"}

====
